---- MODULE Spec2Model ----
(***************************************************************************)
(* Model of the rust_webapp HTTP server: the request parser                *)
(* (http/src/httprequest.rs), the router (httpserver/src/router.rs), the   *)
(* handlers (httpserver/src/handler.rs) and the connection loop            *)
(* (httpserver/src/server.rs).                                             *)
(*                                                                         *)
(* Text is a sequence of one-character strings, so that contains, split,   *)
(* split_whitespace, lines and ends_with are computed character by         *)
(* character as the Rust library computes them.                            *)
(***************************************************************************)
EXTENDS Integers, Sequences, FiniteSets, TLC

VARIABLES
    pc,       \* where Server::run is: "listening", "read", "parsed", "routed", "panic"
    raw,      \* the text made from the read buffer
    req,      \* the HttpRequest parsed from raw
    disk,     \* the public and data directories as the handler found them
    handler,  \* the handler Router::route called
    resp,     \* the HttpResponse the handler returned (an Option)
    stream,   \* what has been written to the connection
    twin,     \* two requests and the directories they are routed against
    twinOut   \* what Router::route did with each of the two

vars == <<pc, raw, req, disk, handler, resp, stream, twin, twinOut>>

(***************************************************************************)
(* Bounds of the model.                                                    *)
(***************************************************************************)
\* most lines of a message assembled from LinePool
MaxLines == 2
\* most zero bytes of the read buffer that follow the bytes received
MaxPad == 1

(***************************************************************************)
(* Characters and text literals.                                           *)
(***************************************************************************)
\* the zero byte the read buffer is filled with (server.rs: [0; 1024])
NUL == "NUL"
SP == " "
CR == "\r"
LF == "\n"
WhiteSpace == {" ", "\t", "\r", "\n"}

sGET == <<"G", "E", "T">>
sPOST == <<"P", "O", "S", "T">>
sPUT == <<"P", "U", "T">>
sHTTP == <<"H", "T", "T", "P">>
sHTTP11 == <<"H", "T", "T", "P", "/", "1", ".", "1">>
sHTTP20 == <<"H", "T", "T", "P", "/", "2", ".", "0">>
sHTTP30 == <<"H", "T", "T", "P", "/", "3", ".", "0">>
sApi == <<"a", "p", "i">>
sShipping == <<"s", "h", "i", "p", "p", "i", "n", "g">>
sOrders == <<"o", "r", "d", "e", "r", "s">>
sHealth == <<"h", "e", "a", "l", "t", "h">>
sDotCss == <<".", "c", "s", "s">>
sDotJs == <<".", "j", "s">>
sIndexHtml == <<"i", "n", "d", "e", "x", ".", "h", "t", "m", "l">>
sHealthHtml == <<"h", "e", "a", "l", "t", "h", ".", "h", "t", "m", "l">>
s404Html == <<"4", "0", "4", ".", "h", "t", "m", "l">>
sACss == <<"a", ".", "c", "s", "s">>
sAJs == <<"a", ".", "j", "s">>
sPage == <<"p", "a", "g", "e">>
sAJson == <<"a", ".", "j", "s", "o", "n">>

pRoot == <<"/">>
pHealth == <<"/", "h", "e", "a", "l", "t", "h">>
pACss == <<"/", "a", ".", "c", "s", "s">>
pAJs == <<"/", "a", ".", "j", "s">>
pPage == <<"/", "p", "a", "g", "e">>
pAJson == <<"/", "a", ".", "j", "s", "o", "n">>
pNone == <<"/", "n", "o", "n", "e", ".", "c", "s", "s">>
pApi == <<"/", "a", "p", "i">>
pApiX == <<"/", "a", "p", "i", "/", "x">>
pApiShipping == <<"/", "a", "p", "i", "/", "s", "h", "i", "p", "p", "i", "n", "g">>
pApiShippingOrders == <<"/", "a", "p", "i", "/", "s", "h", "i", "p", "p", "i", "n", "g", "/", "o", "r", "d", "e", "r", "s">>
pApiShippingX == <<"/", "a", "p", "i", "/", "s", "h", "i", "p", "p", "i", "n", "g", "/", "x">>
pApiShippingOrdersX == <<"/", "a", "p", "i", "/", "s", "h", "i", "p", "p", "i", "n", "g", "/", "o", "r", "d", "e", "r", "s", "/", "x">>
pNoSlash == <<"p", "a", "g", "e">>
pACssX == <<"/", "a", ".", "c", "s", "s", "/", "x">>

lHost == <<"H", "o", "s", "t", ":", " ", "l", "o", "c", "a", "l", "h", "o", "s", "t", ":", "3", "0", "0", "0">>
lHostB == <<"H", "o", "s", "t", ":", " ", "b">>
lAccept == <<"A", "c", "c", "e", "p", "t", ":", " ", "*", "/", "*">>
lColon == <<":">>
lBody1 == <<"h", "i">>
lBody2 == <<"b", "y", "e">>
lReq1 == <<"G", "E", "T", " ", "/", "a", ".", "c", "s", "s", " ", "H", "T", "T", "P", "/", "1", ".", "1">>
lReq2 == <<"P", "O", "S", "T", " ", "/", "a", "p", "i", " ", "H", "T", "T", "P", "/", "2", ".", "0">>
lReqTabs == <<"\t", "G", "E", "T", " ", " ", "/", "p", "a", "g", "e", "\t", "H", "T", "T", "P", "/", "3", ".", "0", " ", "x">>
lBad1 == <<"H", "T", "T", "P">>
lBad2 == <<"G", "E", "T", " ", "H", "T", "T", "P", "/", "1", ".", "1">>
lHttpHeader == <<"X", ":", " ", "H", "T", "T", "P">>

(***************************************************************************)
(* str primitives of the Rust standard library used by the program.        *)
(***************************************************************************)
\* str::contains(pat)
Contains(s, pat) ==
    \E i \in 1..(Len(s) - Len(pat) + 1) : SubSeq(s, i, i + Len(pat) - 1) = pat

\* str::ends_with(suffix)
EndsWith(s, suffix) ==
    /\ Len(s) >= Len(suffix)
    /\ SubSeq(s, Len(s) - Len(suffix) + 1, Len(s)) = suffix

\* index of the first occurrence of character c in s, 0 when there is none
FirstIndex(s, c) ==
    IF \E i \in 1..Len(s) : s[i] = c
    THEN CHOOSE i \in 1..Len(s) : s[i] = c /\ \A j \in 1..(i - 1) : s[j] # c
    ELSE 0

\* str::split(c).collect(): the pieces between occurrences of c, empty
\* pieces included; a text with no c is one piece
RECURSIVE Split(_, _)
Split(s, c) ==
    LET i == FirstIndex(s, c)
    IN  IF i = 0 THEN <<s>>
        ELSE <<SubSeq(s, 1, i - 1)>> \o Split(SubSeq(s, i + 1, Len(s)), c)

\* str::split_whitespace().collect(): the maximal runs of non-whitespace
RECURSIVE SplitWhitespace(_)
SplitWhitespace(s) ==
    IF s = <<>> THEN <<>>
    ELSE IF s[1] \in WhiteSpace THEN SplitWhitespace(Tail(s))
    ELSE LET stop == IF \E i \in 1..Len(s) : s[i] \in WhiteSpace
                     THEN CHOOSE i \in 1..Len(s) :
                              /\ s[i] \in WhiteSpace
                              /\ \A j \in 1..(i - 1) : s[j] \notin WhiteSpace
                     ELSE Len(s) + 1
         IN  <<SubSeq(s, 1, stop - 1)>> \o SplitWhitespace(SubSeq(s, stop, Len(s)))

\* str::lines().collect(): split after every "\n", drop that "\n" and a
\* "\r" right before it; a last line with no "\n" is kept as it is and
\* nothing follows a final "\n"
RECURSIVE Lines(_)
Lines(s) ==
    IF s = <<>> THEN <<>>
    ELSE LET i == FirstIndex(s, LF)
         IN  IF i = 0 THEN <<s>>
             ELSE LET l == SubSeq(s, 1, i - 1)
                      line == IF l # <<>> /\ l[Len(l)] = CR
                              THEN SubSeq(l, 1, Len(l) - 1) ELSE l
                  IN  <<line>> \o Lines(SubSeq(s, i + 1, Len(s)))

(***************************************************************************)
(* http/src/httprequest.rs                                                 *)
(***************************************************************************)
\* impl From<&str> for Method
MethodFrom(s) ==
    IF s = sGET THEN "GET"
    ELSE IF s = sPOST THEN "POST"
    ELSE "UNINITIALIZED"

\* mutant: a version that is not recognised becomes V1_1, the default of
\* the parser, instead of Uninitialized
VersionFrom_DefaultV11(s) ==
    IF s = sHTTP11 THEN "V1_1"
    ELSE IF s = sHTTP20 THEN "V2_0"
    ELSE "V1_1"

\* impl From<&str> for Version
VersionFrom(s) ==
    IF s = sHTTP11 THEN "V1_1"
    ELSE IF s = sHTTP20 THEN "V2_0"
    ELSE "UNINITIALIZED"

\* HashMap::insert: the entry of key is created or replaced
MapInsert(m, key, value) ==
    [k \in (DOMAIN m) \cup {key} |-> IF k = key THEN value ELSE m[k]]

\* parse_request_line: the first three whitespace-separated words; unwrap()
\* of a missing word panics
parse_request_line(s) ==
    LET words == SplitWhitespace(s)
    IN  IF Len(words) < 3
        THEN [panic |-> TRUE, method |-> "UNINITIALIZED", resource |-> <<>>,
              version |-> "UNINITIALIZED"]
        ELSE [panic |-> FALSE, method |-> MethodFrom(words[1]),
              resource |-> words[2], version |-> VersionFrom(words[3])]

\* mutant: split on the first ":" only, so the value keeps its later colons
parse_header_line_SplitOnce(s) ==
    LET i == FirstIndex(s, ":")
    IN  [key |-> IF i = 0 THEN s ELSE SubSeq(s, 1, i - 1),
         value |-> IF i = 0 THEN <<>> ELSE SubSeq(s, i + 1, Len(s))]

\* parse_header_line: split on every ":"; the first piece is the key, the
\* second piece (when there is one) the value
parse_header_line(s) ==
    LET header_items == Split(s, ":")
    IN  [key |-> header_items[1],
         value |-> IF Len(header_items) >= 2 THEN header_items[2] ELSE <<>>]

\* the locals of HttpRequest::from before the loop
ParsedDefault ==
    [panic |-> FALSE, method |-> "UNINITIALIZED", version |-> "V1_1",
     resource |-> <<>>, headers |-> <<>>, msg_body |-> <<>>]

\* mutant: the first request line wins, later ones are not assigned
SetRequestLine_FirstWins(acc, r) ==
    IF acc.resource # <<>> THEN acc
    ELSE [acc EXCEPT !.method = r.method, !.resource = r.resource,
                     !.version = r.version]

\* the three assignments after parse_request_line returned
SetRequestLine(acc, r) ==
    [acc EXCEPT !.method = r.method, !.resource = r.resource,
                !.version = r.version]

\* mutant: a body line is appended to the body instead of replacing it
SetBody_Append(acc, line) == [acc EXCEPT !.msg_body = acc.msg_body \o line]

\* parsed_msg_body = line
SetBody(acc, line) == [acc EXCEPT !.msg_body = line]

\* one iteration of the loop over req.lines()
ParseLine(acc, line) ==
    IF acc.panic THEN acc
    ELSE IF Contains(line, sHTTP)
    THEN LET r == parse_request_line(line)
         IN  IF r.panic THEN [acc EXCEPT !.panic = TRUE]
             ELSE SetRequestLine(acc, r)
    ELSE IF Contains(line, <<":">>)
    THEN LET h == parse_header_line(line)
         IN  [acc EXCEPT !.headers = MapInsert(acc.headers, h.key, h.value)]
    ELSE IF Len(line) = 0 THEN acc
    ELSE SetBody(acc, line)

RECURSIVE ParseLines(_, _)
ParseLines(acc, lines) ==
    IF lines = <<>> THEN acc
    ELSE ParseLines(ParseLine(acc, Head(lines)), Tail(lines))

\* impl From<String> for HttpRequest; panic = TRUE when an unwrap() failed
\* and no HttpRequest is returned
HttpRequestFrom(text) == ParseLines(ParsedDefault, Lines(text))

(***************************************************************************)
(* Messages a client can send.                                             *)
(***************************************************************************)
ReqLine(m, p, v) == m \o <<SP>> \o p \o <<SP>> \o v

MethodTokens == {sGET, sPOST, sPUT}
VersionTokens == {sHTTP11, sHTTP20, sHTTP30}
PathTokens == {pRoot, pHealth, pACss, pAJs, pPage, pAJson, pNone, pApi, pApiX,
               pApiShipping, pApiShippingOrders, pApiShippingX,
               pApiShippingOrdersX, pNoSlash, pACssX}

\* every request line over the tokens above
RequestLines ==
    {ReqLine(m, p, v) : m \in MethodTokens, p \in PathTokens, v \in VersionTokens}

\* lines of every kind the parser tells apart
LinePool == {lReq1, lReq2, lReqTabs, lBad1, lBad2, lHttpHeader,
             lHost, lHostB, lAccept, lColon, lBody1, lBody2, <<>>}

LineSeqs == UNION {[1..n -> LinePool] : n \in 0..MaxLines}

RECURSIVE Join(_, _, _)
\* the lines, each followed by eol; the last one only when final
Join(ls, eol, final) ==
    IF ls = <<>> THEN <<>>
    ELSE IF Len(ls) = 1 THEN Head(ls) \o (IF final THEN eol ELSE <<>>)
    ELSE Head(ls) \o eol \o Join(Tail(ls), eol, final)

Messages ==
    {Join(ls, eol, final) : ls \in LineSeqs \cup {<<l>> : l \in RequestLines},
                            eol \in {<<LF>>, <<CR, LF>>},
                            final \in BOOLEAN}

Padding(n) == [i \in 1..n |-> NUL]

(***************************************************************************)
(* http/src/httpresponse.rs                                                *)
(* An Option is a sequence of at most one element: <<>> is None and <<x>>  *)
(* is Some(x).                                                             *)
(***************************************************************************)
\* HttpResponse::new: the reason phrase follows the status code, absent
\* headers become Content-Type text/html
HttpResponseNew(status_code, headers, body) ==
    [version |-> "HTTP/1.1",
     status_code |-> status_code,
     status_text |-> IF status_code = "200" THEN "OK" ELSE "Not Found",
     headers |-> IF headers = <<>> THEN [h \in {"Content-Type"} |-> "text/html"]
                 ELSE headers[1],
     body |-> body]

\* HttpResponse::send_response: what is written to the stream
\* (status line, Content-Length, headers, body)
Wire(r) ==
    [status_line |-> <<r.version, r.status_code, r.status_text>>,
     content_length |-> IF r.body = <<>> THEN 0 ELSE Len(r.body[1]),
     headers |-> r.headers,
     body |-> IF r.body = <<>> THEN <<>> ELSE r.body[1]]

(***************************************************************************)
(* The public and data directories.                                        *)
(***************************************************************************)
FileNames == {sIndexHtml, sHealthHtml, s404Html, sACss, sAJs, sPage, sAJson}

\* the text stored in the file called name
FileText(name) == <<"<">> \o name \o <<">">>

PublicDir(names) == [n \in names |-> FileText(n)]

\* orders.json decoded: a sequence of OrderStatus records
SomeOrders == <<[order_id |-> "1", order_date |-> "d", order_status |-> "s"]>>

Disks ==
    {[public |-> PublicDir(names), orders |-> o] :
        names \in {FileNames, FileNames \ {s404Html}, {s404Html}, {}},
        o \in {<<>>, <<SomeOrders>>}}

NoDisk == [public |-> PublicDir({}), orders |-> <<>>]

(***************************************************************************)
(* httpserver/src/handler.rs                                               *)
(* A handler yields [panic, resp]: panic = TRUE when an index was out of   *)
(* bounds or an unwrap() failed, and then there is no response.            *)
(***************************************************************************)
\* Handler::load_file: Some(contents) of a readable file, None otherwise
load_file(d, file_name) ==
    IF file_name \in DOMAIN d.public THEN <<d.public[file_name]>> ELSE <<>>

Panicked == [panic |-> TRUE, resp |-> <<>>]
Responded(r) == [panic |-> FALSE, resp |-> <<r>>]

\* PageNotFoundHandler::handle
PageNotFoundHandle(r, d) ==
    Responded(HttpResponseNew("404", <<>>, load_file(d, s404Html)))

\* mutant: the extension is looked for anywhere in the name
ContentTypeOf_Contains(path) ==
    IF Contains(path, sDotCss) THEN "text/css"
    ELSE IF Contains(path, sDotJs) THEN "application/javascript"
    ELSE "text/html"

\* the Content-Type StaticPageHandler::handle gives a file it found
ContentTypeOf(path) ==
    IF EndsWith(path, sDotCss) THEN "text/css"
    ELSE IF EndsWith(path, sDotJs) THEN "application/javascript"
    ELSE "text/html"

\* StaticPageHandler::handle; route[1] of the source is route[2] here
StaticPageHandle(r, d) ==
    LET route == Split(r.resource, "/")
    IN  IF Len(route) < 2 THEN Panicked
        ELSE IF route[2] = <<>>
        THEN Responded(HttpResponseNew("200", <<>>, load_file(d, sIndexHtml)))
        ELSE IF route[2] = sHealth
        THEN Responded(HttpResponseNew("200", <<>>, load_file(d, sHealthHtml)))
        ELSE LET path == route[2]
                 contents == load_file(d, path)
             IN  IF contents # <<>>
                 THEN Responded(HttpResponseNew("200",
                          <<[h \in {"Content-Type"} |-> ContentTypeOf(path)]>>,
                          contents))
                 ELSE Responded(HttpResponseNew("404", <<>>, load_file(d, s404Html)))

RECURSIVE JsonItems(_)
JsonItems(orders) ==
    IF orders = <<>> THEN <<>>
    ELSE <<"{", Head(orders).order_id, "}">>
         \o (IF Len(orders) > 1 THEN <<",">> ELSE <<>>)
         \o JsonItems(Tail(orders))

\* serde_json::to_string of the order records: a JSON array
ToJson(orders) == <<"[">> \o JsonItems(orders) \o <<"]">>

\* WebServiceHandler::handle; route[2] and route[3] of the source are
\* route[3] and route[4] here.  load_json unwraps the read and the decoding
\* of orders.json.
WebServiceHandle(r, d) ==
    LET route == Split(r.resource, "/")
    IN  IF Len(route) < 3 THEN Panicked
        ELSE IF route[3] = sShipping /\ Len(route) > 2
        THEN IF Len(route) < 4 THEN Panicked
             ELSE IF route[4] = sOrders
             THEN IF d.orders = <<>> THEN Panicked
                  ELSE Responded(HttpResponseNew("200",
                           <<[h \in {"Content-Type"} |-> "application/json"]>>,
                           <<ToJson(d.orders[1])>>))
             ELSE Responded(HttpResponseNew("404", <<>>, load_file(d, s404Html)))
        ELSE Responded(HttpResponseNew("404", <<>>, load_file(d, s404Html)))

(***************************************************************************)
(* httpserver/src/router.rs                                                *)
(***************************************************************************)
\* mutant: the path is matched before the method, so /api goes to the web
\* service for every method
SelectHandler_PathFirst(r) ==
    LET route == Split(r.resource, "/")
    IN  IF Len(route) >= 2 /\ route[2] = sApi THEN "WebServiceHandler"
        ELSE IF r.method # "GET" THEN "PageNotFoundHandler"
        ELSE IF Len(route) < 2 THEN "panic"
        ELSE "StaticPageHandler"

\* mutant: a request that is not HTTP/1.1 is turned away
SelectHandler_ByVersion(r) ==
    IF r.method = "GET" /\ r.version = "V1_1"
    THEN LET route == Split(r.resource, "/")
         IN  IF Len(route) < 2 THEN "panic"
             ELSE IF route[2] = sApi THEN "WebServiceHandler"
             ELSE "StaticPageHandler"
    ELSE "PageNotFoundHandler"

\* the two nested matches of Router::route: the handler the request goes
\* to, "panic" when route[1] is out of bounds
SelectHandler(r) ==
    IF r.method = "GET"
    THEN LET route == Split(r.resource, "/")
         IN  IF Len(route) < 2 THEN "panic"
             ELSE IF route[2] = sApi THEN "WebServiceHandler"
             ELSE "StaticPageHandler"
    ELSE "PageNotFoundHandler"

\* Router::route: the handler chosen, whether the call panicked, the
\* response the handler built and what send_response wrote to the stream
RouterRoute(r, d) ==
    LET h == SelectHandler(r)
        out == IF h = "WebServiceHandler" THEN WebServiceHandle(r, d)
               ELSE IF h = "StaticPageHandler" THEN StaticPageHandle(r, d)
               ELSE IF h = "PageNotFoundHandler" THEN PageNotFoundHandle(r, d)
               ELSE Panicked
    IN  [handler |-> h,
         panic |-> out.panic,
         resp |-> out.resp,
         written |-> IF out.panic THEN <<>> ELSE <<Wire(out.resp[1])>>]

(***************************************************************************)
(* httpserver/src/server.rs: the connection loop.                          *)
(***************************************************************************)
\* no HttpRequest exists yet on this connection
NoRequest ==
    [panic |-> FALSE, method |-> "-", version |-> "-",
     resource |-> <<>>, headers |-> <<>>, msg_body |-> <<>>]

\* the requests of the twin specification: a request line followed by
\* nothing, by a header line or by a body line
TwinTails == {<<>>, <<lHostB>>, <<lBody1>>}

TwinRequest(m, p, v, tail) ==
    HttpRequestFrom(Join(<<ReqLine(m, p, v)>> \o tail, <<CR, LF>>, TRUE))

\* two requests that have the method and the path in common
Twins ==
    {[a |-> TwinRequest(m, p, va, ta), b |-> TwinRequest(m, p, vb, tb), disk |-> d] :
        m \in MethodTokens, p \in PathTokens,
        va \in VersionTokens, vb \in VersionTokens,
        ta \in TwinTails, tb \in TwinTails, d \in Disks}

NoTwin == [a |-> NoRequest, b |-> NoRequest, disk |-> NoDisk]
NoTwinOut == [a |-> <<>>, b |-> <<>>]

Init ==
    /\ pc = "listening"
    /\ raw = <<>>
    /\ req = NoRequest
    /\ disk = NoDisk
    /\ handler = "-"
    /\ resp = <<>>
    /\ stream = <<>>
    /\ twin = NoTwin
    /\ twinOut = NoTwinOut

\* Server::run: a connection is accepted and stream.read puts the bytes the
\* client sent at the start of the zeroed buffer
Read ==
    /\ pc = "listening"
    /\ \E msg \in Messages, pad \in 0..MaxPad : raw' = msg \o Padding(pad)
    /\ pc' = "read"
    /\ UNCHANGED <<req, disk, handler, resp, stream, twin, twinOut>>

\* Server::run: String::from_utf8(read_buffer.to_vec()).unwrap().into();
\* a panic ends the process
Parse ==
    /\ pc = "read"
    /\ req' = HttpRequestFrom(raw)
    /\ pc' = IF req'.panic THEN "panic" ELSE "parsed"
    /\ UNCHANGED <<raw, disk, handler, resp, stream, twin, twinOut>>

\* Server::run: Router::route(req, &mut stream), with the directories as
\* they are when the handler reads them; a panic ends the process
Route ==
    /\ pc = "parsed"
    /\ \E d \in Disks :
          LET out == RouterRoute(req, d)
          IN  /\ disk' = d
              /\ handler' = out.handler
              /\ resp' = out.resp
              /\ stream' = stream \o out.written
              /\ pc' = IF out.panic THEN "panic" ELSE "routed"
    /\ UNCHANGED <<raw, req, twin, twinOut>>

\* Server::run: the end of the loop body drops the buffer, the request and
\* the stream; the listener waits for the next connection
Close ==
    /\ pc = "routed"
    /\ pc' = "listening"
    /\ raw' = <<>>
    /\ req' = NoRequest
    /\ disk' = NoDisk
    /\ handler' = "-"
    /\ resp' = <<>>
    /\ stream' = <<>>
    /\ UNCHANGED <<twin, twinOut>>

Next == Read \/ Parse \/ Route \/ Close

Spec == Init /\ [][Next]_vars

(***************************************************************************)
(* Twin specification: Router::route called on two requests that have the  *)
(* method and the path in common, against the same directories.            *)
(***************************************************************************)
InitTwin ==
    /\ pc = "listening"
    /\ raw = <<>>
    /\ req = NoRequest
    /\ disk = NoDisk
    /\ handler = "-"
    /\ resp = <<>>
    /\ stream = <<>>
    /\ twin \in Twins
    /\ twinOut = NoTwinOut

RouteA ==
    /\ twinOut.a = <<>>
    /\ twinOut' = [twinOut EXCEPT !.a = <<RouterRoute(twin.a, twin.disk)>>]
    /\ UNCHANGED <<pc, raw, req, disk, handler, resp, stream, twin>>

RouteB ==
    /\ twinOut.b = <<>>
    /\ twinOut' = [twinOut EXCEPT !.b = <<RouterRoute(twin.b, twin.disk)>>]
    /\ UNCHANGED <<pc, raw, req, disk, handler, resp, stream, twin>>

NextTwin == RouteA \/ RouteB

SpecTwin == InitTwin /\ [][NextTwin]_vars

(***************************************************************************)
(* Properties.                                                             *)
(***************************************************************************)
Max(S) == CHOOSE x \in S : \A y \in S : y <= x
Min(S) == CHOOSE x \in S : \A y \in S : x <= y

\* From<String> has just returned an HttpRequest for the text in raw
ParsedOk == pc = "parsed"
\* From<String> was called on the text in raw
ParseCalled == pc \notin {"listening", "read"}
\* Router::route was called on req
RouteCalled == handler # "-"

RawLines == Lines(raw)
\* positions of the lines the parser takes for request lines, header lines
\* and body lines
HttpLineIdx == {i \in 1..Len(RawLines) : Contains(RawLines[i], sHTTP)}
HeaderLineIdx ==
    {i \in 1..Len(RawLines) :
        Contains(RawLines[i], <<":">>) /\ ~Contains(RawLines[i], sHTTP)}
BodyLineIdx ==
    {i \in 1..Len(RawLines) :
        /\ RawLines[i] # <<>>
        /\ ~Contains(RawLines[i], <<":">>)
        /\ ~Contains(RawLines[i], sHTTP)}
LastHttpWords == SplitWhitespace(RawLines[Max(HttpLineIdx)])
FirstHttpWords == SplitWhitespace(RawLines[Min(HttpLineIdx)])

\* the segments of the resource path of req
Segments == Split(req.resource, "/")
\* the content of 404.html when the handler could load it, else no body
NotFoundBody ==
    IF s404Html \in DOMAIN disk.public THEN <<disk.public[s404Html]>> ELSE <<>>

\* C1: for every request the parser returns, Router::route completes
\* without a fault and writes exactly one response to the stream (stated
\* for directories that hold a readable orders.json).
C1_RouteAlwaysResponds ==
    (RouteCalled /\ disk.orders # <<>>) => (pc = "routed" /\ Len(stream) = 1)

\* C2: GET with path segment 1 equal to "api" goes to WebServiceHandler,
\* GET with any other segment 1 to StaticPageHandler, and every other
\* method to PageNotFoundHandler whatever the path, with status 404.
C2_RouteSelection ==
    RouteCalled =>
        /\ (req.method = "GET" /\ Len(Segments) >= 2 /\ Segments[2] = sApi)
              => handler = "WebServiceHandler"
        /\ (req.method = "GET" /\ Len(Segments) >= 2 /\ Segments[2] # sApi)
              => handler = "StaticPageHandler"
        /\ req.method # "GET"
              => /\ handler = "PageNotFoundHandler"
                 /\ pc = "routed"
                 /\ resp # <<>> /\ resp[1].status_code = "404"
                 /\ Len(stream) = 1 /\ stream[1].status_line[2] = "404"

C2_Witness ==
    /\ pc = "routed"
    /\ req.method = "POST"
    /\ Len(Segments) >= 2 /\ Segments[2] = sApi
    /\ handler = "PageNotFoundHandler"
    /\ stream[1].status_line[2] = "404"

\* C3: WebServiceHandler responds 200 with Content-Type application/json
\* and a JSON array when segment 2 is "shipping" and segment 3 is "orders",
\* and responds 404 with the 404.html body for every other path under /api,
\* "/api" and "/api/shipping" included (stated for directories that hold a
\* readable orders.json).
C3_WebServiceResponds ==
    (handler = "WebServiceHandler" /\ disk.orders # <<>>) =>
        /\ pc = "routed"
        /\ resp # <<>>
        /\ IF /\ Len(Segments) >= 4
              /\ Segments[3] = sShipping
              /\ Segments[4] = sOrders
           THEN /\ resp[1].status_code = "200"
                /\ resp[1].headers["Content-Type"] = "application/json"
                /\ resp[1].body # <<>>
                /\ Head(resp[1].body[1]) = "["
                /\ resp[1].body[1][Len(resp[1].body[1])] = "]"
           ELSE /\ resp[1].status_code = "404"
                /\ resp[1].body = NotFoundBody

\* C4: StaticPageHandler decides on path segment 1: the empty segment
\* serves index.html with 200, "health" serves health.html with 200, a
\* segment that names a loadable file gives 200 with the file as body and
\* a Content-Type after its extension (.css, .js, else text/html), and any
\* other segment gives 404 with the 404.html body when there is one.
C4_StaticPage ==
    handler = "StaticPageHandler" =>
        LET seg == Segments[2]
            n == Len(seg)
            css == n >= 4 /\ <<seg[n - 3], seg[n - 2], seg[n - 1], seg[n]>> = <<".", "c", "s", "s">>
            js == n >= 3 /\ <<seg[n - 2], seg[n - 1], seg[n]>> = <<".", "j", "s">>
        IN  /\ pc = "routed"
            /\ resp # <<>>
            /\ seg = <<>> =>
                  /\ resp[1].status_code = "200"
                  /\ resp[1].body = (IF sIndexHtml \in DOMAIN disk.public
                                     THEN <<disk.public[sIndexHtml]>> ELSE <<>>)
            /\ seg = sHealth =>
                  /\ resp[1].status_code = "200"
                  /\ resp[1].body = (IF sHealthHtml \in DOMAIN disk.public
                                     THEN <<disk.public[sHealthHtml]>> ELSE <<>>)
            /\ (seg \notin {<<>>, sHealth} /\ seg \in DOMAIN disk.public) =>
                  /\ resp[1].status_code = "200"
                  /\ resp[1].body = <<disk.public[seg]>>
                  /\ resp[1].headers["Content-Type"] =
                        (IF css THEN "text/css"
                         ELSE IF js THEN "application/javascript"
                         ELSE "text/html")
            /\ (seg \notin {<<>>, sHealth} /\ seg \notin DOMAIN disk.public) =>
                  /\ resp[1].status_code = "404"
                  /\ resp[1].body = NotFoundBody

C4_Witness ==
    /\ pc = "routed"
    /\ handler = "StaticPageHandler"
    /\ Segments[2] = sACss
    /\ Len(Segments) > 2
    /\ resp[1].status_code = "200"
    /\ resp[1].body = <<FileText(sACss)>>
    /\ resp[1].headers["Content-Type"] = "text/css"

\* C5: parsing never fails, and when no line of the text is a request line
\* of three words the HttpRequest has method UNINITIALIZED, version V1_1
\* and resource Path("").
C5_ParsingNeverFails ==
    ParseCalled =>
        /\ ~req.panic
        /\ (\A i \in HttpLineIdx : Len(SplitWhitespace(RawLines[i])) < 3)
              => /\ req.method = "UNINITIALIZED"
                 /\ req.version = "V1_1"
                 /\ req.resource = <<>>

\* C6: the method is GET for the word "GET", POST for "POST" and
\* UNINITIALIZED for any other first word; the version is V1_1 for
\* "HTTP/1.1", V2_0 for "HTTP/2.0" and UNINITIALIZED for any other third
\* word.
C6_MethodAndVersion ==
    (ParsedOk /\ HttpLineIdx # {}) =>
        LET w == LastHttpWords
        IN  /\ Len(w) >= 3
            /\ w[1] = <<"G", "E", "T">> => req.method = "GET"
            /\ w[1] = <<"P", "O", "S", "T">> => req.method = "POST"
            /\ w[1] \notin {<<"G", "E", "T">>, <<"P", "O", "S", "T">>}
                  => req.method = "UNINITIALIZED"
            /\ w[3] = <<"H", "T", "T", "P", "/", "1", ".", "1">> => req.version = "V1_1"
            /\ w[3] = <<"H", "T", "T", "P", "/", "2", ".", "0">> => req.version = "V2_0"
            /\ w[3] \notin {<<"H", "T", "T", "P", "/", "1", ".", "1">>,
                            <<"H", "T", "T", "P", "/", "2", ".", "0">>}
                  => req.version = "UNINITIALIZED"

C6_Witness ==
    /\ ParsedOk
    /\ HttpLineIdx # {}
    /\ LastHttpWords[1] = sPUT
    /\ LastHttpWords[3] = sHTTP30
    /\ req.method = "UNINITIALIZED"
    /\ req.version = "UNINITIALIZED"

\* the text of a header line before its first colon
KeyText(l) == SubSeq(l, 1, FirstIndex(l, ":") - 1)
\* the text of a header line between its first colon and its second colon,
\* or the end of the line
ValueText(l) ==
    LET rest == SubSeq(l, FirstIndex(l, ":") + 1, Len(l))
        c == FirstIndex(rest, ":")
    IN  IF c = 0 THEN rest ELSE SubSeq(rest, 1, c - 1)

C8_MethodAndPathDecide ==
    (/\ twinOut.a # <<>>
     /\ twinOut.b # <<>>
     /\ twin.a.method = twin.b.method
     /\ twin.a.resource = twin.b.resource)
    => twinOut.a = twinOut.b

C8_Witness ==
    /\ twinOut.a # <<>>
    /\ twinOut.b # <<>>
    /\ twin.a.method = "GET"
    /\ twin.a.version = "V1_1"
    /\ twin.b.version = "V2_0"
    /\ twin.a.headers # twin.b.headers
    /\ twinOut.a[1].handler = "StaticPageHandler"
    /\ twinOut.a[1].resp # <<>>
    /\ twinOut.a[1].resp[1].status_code = "200"
    /\ twinOut.b[1].resp = twinOut.a[1].resp

\* C9: the body is the last line that is not empty and has neither ":" nor
\* "HTTP", and is empty when there is no such line.
C9_BodyIsLastBodyLine ==
    ParsedOk =>
        req.msg_body = (IF BodyLineIdx = {} THEN <<>>
                        ELSE RawLines[Max(BodyLineIdx)])

C9_Witness ==
    /\ ParsedOk
    /\ Cardinality(BodyLineIdx) >= 2
    /\ RawLines[Min(BodyLineIdx)] = lBody1
    /\ RawLines[Max(BodyLineIdx)] = lBody2
    /\ req.msg_body = lBody2

\* C10: when several lines hold "HTTP", the request carries the method, the
\* resource and the version of the last of them.
C10_LastRequestLineWins ==
    (ParsedOk /\ Cardinality(HttpLineIdx) >= 2) =>
        /\ req.method = MethodFrom(LastHttpWords[1])
        /\ req.resource = LastHttpWords[2]
        /\ req.version = VersionFrom(LastHttpWords[3])

C10_Witness ==
    /\ ParsedOk
    /\ Cardinality(HttpLineIdx) >= 2
    /\ FirstHttpWords[2] # LastHttpWords[2]
    /\ FirstHttpWords[1] # LastHttpWords[1]
    /\ req.resource = LastHttpWords[2]
    /\ req.method = "POST"

====
